---- MODULE Spec2Model ----
\* A model of the sequential pipeline engine of online_retail_sales:
\* PipelineStep / Pipeline / PipelineBuilder (pipeline/base.py), the
\* configuration-driven assembler execute_pipeline (helpers/utils.py) and the
\* concrete steps of helpers/steps.py that the pipelines are built from.
EXTENDS Naturals, Sequences, FiniteSets

\* ------------------------------------------------------------------ bounds

\* Longest entry list the direct caller accumulates in the builder.
MaxSteps == 3
\* Longest configuration section handed to execute_pipeline.
MaxConfig == 4

\* ------------------------------------------------------------------ values

\* Python's None as a data value, and a DataFrame holding a sequence of rows.
None == [df |-> FALSE, rows |-> << >>]

DF(rows) == [df |-> TRUE, rows |-> rows]

\* A keyword-argument mapping is a set of <<key, value>> pairs with distinct keys.
EmptyKwargs == {}

Keys(kw) == {p[1] : p \in kw}

Get(kw, k, default) == IF k \in Keys(kw) THEN (CHOOSE p \in kw : p[1] = k)[2] ELSE default

Without(kw, ks) == {p \in kw : p[1] \notin ks}

\* Exceptions: the kind (the Python class) and the site that raised it, which
\* stands for the identity of the exception object.
NoError == [kind |-> "none", site |-> "none"]

Error(kind, site) == [kind |-> kind, site |-> site]

\* The rows of the one file the file system holds, and its path.
FilePath == "sales.csv"

FileRows == <<"a", "a", "nan">>

\* The database table the pipelines write to: absent, or holding rows.
NoTable == [exists |-> FALSE, rows |-> << >>]

Table(rows) == [exists |-> TRUE, rows |-> rows]

\* ------------------------------------------------------------------ steps

\* The step classes of helpers/steps.py that the model covers.
StepClasses == {"LoadDataframeFromPath", "InitializeDatabaseConnection",
                "SaveDataframeToDatabase",
                "CloseDatabaseConnection", "RemoveDuplicates", "ValidateData"}

\* The name each constructor passes to PipelineStep.__init__.
StepName(cls) ==
  CASE cls = "LoadDataframeFromPath" -> "LoadDataframeFromPath"
    [] cls = "InitializeDatabaseConnection" -> "InitializeDatabaseConnection"
    [] cls = "SaveDataframeToDatabase" -> "SaveDataframeToDatabase"
    [] cls = "CloseDatabaseConnection" -> "CloseDatabaseConnection"
    [] cls = "RemoveDuplicates" -> "RemoveDuplicatesStep"
    [] cls = "ValidateData" -> "ValidateData"

\* The signature of each class's function(self, data, ...): the keyword names
\* it declares besides self and data, those of them that have no default, and
\* whether it collects the others in **kwargs.
FunctionSig(cls) ==
  CASE cls = "LoadDataframeFromPath" ->
         [named |-> {"file_type"}, required |-> {}, varkw |-> TRUE]
    [] cls = "InitializeDatabaseConnection" ->
         [named |-> {}, required |-> {}, varkw |-> TRUE]
    [] cls = "SaveDataframeToDatabase" ->
         [named |-> {"table_name", "schema_name", "if_exists"},
          required |-> {"table_name", "schema_name"}, varkw |-> FALSE]
    [] cls = "CloseDatabaseConnection" ->
         [named |-> {}, required |-> {}, varkw |-> FALSE]
    [] cls = "RemoveDuplicates" ->
         [named |-> {}, required |-> {}, varkw |-> FALSE]
    [] cls = "ValidateData" ->
         [named |-> {}, required |-> {}, varkw |-> FALSE]

\* Python's argument binding for a call f(positional..., **kw) of a function
\* whose positional parameters are `positional`: a key that names a parameter
\* already bound positionally, or a key the function does not declare, is a TypeError.
BindFails(positional, named, varkw, kw) ==
  \/ Keys(kw) \cap positional # {}
  \/ ~varkw /\ (Keys(kw) \ named) # {}

\* pandas' DataFrame.drop_duplicates(): the first occurrence of each row is kept.
RECURSIVE DropDuplicates(_)
DropDuplicates(rows) ==
  IF rows = << >> THEN << >>
  ELSE LET front == DropDuplicates(SubSeq(rows, 1, Len(rows) - 1))
           last == rows[Len(rows)]
       IN IF \E i \in 1..Len(front) : front[i] = last THEN front ELSE Append(front, last)

HasNulls(rows) == \E i \in 1..Len(rows) : rows[i] = "nan"

HasDuplicates(rows) == \E i, j \in 1..Len(rows) : i < j /\ rows[i] = rows[j]

\* pandas' readers: the keyword that carries the path, per file type.
ReaderPathKey(file_type) ==
  CASE file_type = "csv" -> "filepath_or_buffer"
    [] file_type = "xlsx" -> "io"
    [] file_type = "json" -> "path_or_buf"

\* The outcome of a call: the value returned or the error raised, and the
\* module-level db_engine after it.
Returned(value, engine) == [ok |-> TRUE, value |-> value, err |-> NoError, engine |-> engine]

Raised(err, engine) == [ok |-> FALSE, value |-> None, err |-> err, engine |-> engine]

LoadDataframeFromPath(data, kw, engine) ==
  LET file_type == Get(kw, "file_type", "csv")
      rest == Without(kw, {"file_type"})
  IN IF file_type \notin {"csv", "xlsx", "json"}
     THEN Raised(Error("ValueError", "LoadDataframeFromPath.function"), engine)
     ELSE IF Keys(rest) # {ReaderPathKey(file_type)}
     THEN Raised(Error("TypeError", "pandas.read"), engine)
     ELSE IF Get(rest, ReaderPathKey(file_type), "") # FilePath
     THEN Raised(Error("FileNotFoundError", "pandas.read"), engine)
     ELSE Returned(DF(FileRows), engine)

InitializeDatabaseConnection(data, kw, engine, secrets) ==
  IF ~secrets
  THEN Raised(Error("AssertionError", "get_connection_string"), engine)
  ELSE Returned(data, "engine")

\* What data.to_sql(..., if_exists=...) leaves in the table.
Written(table, rows, if_exists) ==
  IF if_exists = "append" /\ table.exists THEN Table(table.rows \o rows) ELSE Table(rows)

SaveDataframeToDatabase(data, kw, engine, table) ==
  LET if_exists == Get(kw, "if_exists", "append")
  IN IF engine = "None"
     THEN Raised(Error("AttributeError", "SaveDataframeToDatabase.function"), engine)
     ELSE IF ~data.df
     THEN Raised(Error("AttributeError", "SaveDataframeToDatabase.function"), engine)
     ELSE IF if_exists \notin {"append", "replace", "fail"}
     THEN Raised(Error("ValueError", "pandas.to_sql"), engine)
     ELSE IF if_exists = "fail" /\ table.exists
     THEN Raised(Error("ValueError", "pandas.to_sql"), engine)
     ELSE Returned(data, engine)

\* CloseDatabaseConnection.function as it would be without its check of
\* db_engine: close_connection(None) fails on None.dispose().
CloseDatabaseConnectionNoCheck(data, kw, engine) ==
  IF engine = "None"
  THEN Raised(Error("AttributeError", "close_connection"), engine)
  ELSE Returned(data, "disposed")

CloseDatabaseConnection(data, kw, engine) ==
  IF engine = "None"
  THEN Raised(Error("ValueError", "CloseDatabaseConnection.function"), engine)
  ELSE Returned(data, "disposed")

RemoveDuplicates(data, kw, engine) ==
  IF ~data.df
  THEN Raised(Error("AttributeError", "RemoveDuplicates.function"), engine)
  ELSE Returned(DF(DropDuplicates(data.rows)), engine)

ValidateData(data, kw, engine) ==
  IF ~data.df
  THEN Raised(Error("AttributeError", "ValidateData.function"), engine)
  ELSE IF HasNulls(data.rows) \/ HasDuplicates(data.rows)
  THEN Raised(Error("ValueError", "ValidateData.function"), engine)
  ELSE Returned(data, engine)

\* self.function(data, **kwargs): argument binding, then the class's body.
StepFunction(cls, data, kw, engine, secrets, table) ==
  IF \/ BindFails({"self", "data"}, FunctionSig(cls).named, FunctionSig(cls).varkw, kw)
     \/ FunctionSig(cls).required \ Keys(kw) # {}
  THEN Raised(Error("TypeError", "function.call"), engine)
  ELSE CASE cls = "LoadDataframeFromPath" -> LoadDataframeFromPath(data, kw, engine)
         [] cls = "InitializeDatabaseConnection" -> InitializeDatabaseConnection(data, kw, engine, secrets)
         [] cls = "SaveDataframeToDatabase" -> SaveDataframeToDatabase(data, kw, engine, table)
         [] cls = "CloseDatabaseConnection" -> CloseDatabaseConnection(data, kw, engine)
         [] cls = "RemoveDuplicates" -> RemoveDuplicates(data, kw, engine)
         [] cls = "ValidateData" -> ValidateData(data, kw, engine)

\* The table after self.function(data, **kwargs): a SaveDataframeToDatabase
\* that returns has written the data's rows, everything else leaves it alone.
TableAfter(cls, data, kw, engine, secrets, table) ==
  IF cls = "SaveDataframeToDatabase" /\ StepFunction(cls, data, kw, engine, secrets, table).ok
  THEN Written(table, data.rows, Get(kw, "if_exists", "append"))
  ELSE table

\* ------------------------------------------------------------------ engine

\* An event of a run's record: a progress line printed ("print", with the
\* step's name) or a transformation invoked ("call", with the class, the data
\* and the keyword arguments it was given, and how the invocation ended).
PrintEvent(name) ==
  [ev |-> "print", step |-> name, data |-> None, kw |-> EmptyKwargs,
   ok |-> TRUE, ret |-> None, err |-> NoError]

CallEvent(cls, data, kw, out) ==
  [ev |-> "call", step |-> cls, data |-> data, kw |-> kw,
   ok |-> out.ok, ret |-> out.value, err |-> out.err]

\* PipelineStep.execute as it would be if it caught the step's error and raised
\* an engine-level error in its place.
PipelineStepExecuteWrap(cls, data, kw, engine, secrets, table) ==
  IF BindFails({"self", "data"}, {}, TRUE, kw)
  THEN [out |-> Raised(Error("TypeError", "execute.call"), engine), log |-> << >>,
        table |-> table]
  ELSE LET out == StepFunction(cls, data, kw, engine, secrets, table)
       IN [out |-> IF out.ok THEN out
                   ELSE Raised(Error("RuntimeError", "PipelineStep.execute"), out.engine),
           log |-> <<PrintEvent(StepName(cls)), CallEvent(cls, data, kw, out)>>,
           table |-> TableAfter(cls, data, kw, engine, secrets, table)]

\* PipelineStep.execute(self, data=None, **kwargs), called as
\* step.execute(data, **kwargs): binding, the progress line, then self.function.
PipelineStepExecute(cls, data, kw, engine, secrets, table) ==
  IF BindFails({"self", "data"}, {}, TRUE, kw)
  THEN [out |-> Raised(Error("TypeError", "execute.call"), engine), log |-> << >>,
        table |-> table]
  ELSE LET out == StepFunction(cls, data, kw, engine, secrets, table)
       IN [out |-> out,
           log |-> <<PrintEvent(StepName(cls)), CallEvent(cls, data, kw, out)>>,
           table |-> TableAfter(cls, data, kw, engine, secrets, table)]

\* PipelineBuilder.add_step(self, step, **kwargs): binding, then the append.
AddStepFails(kw) == BindFails({"self", "step"}, {}, TRUE, kw)

\* add_step as it would be if it inserted at the front of the list.
add_step_front(steps, step, kw) == <<<<step, kw>>>> \o steps

add_step(steps, step, kw) == Append(steps, <<step, kw>>)

\* add_step as it would be if it ended without `return self`.
add_step_return_none(builder_ref) == "none"

\* What add_step returns: `return self`, the builder it was called on.
add_step_return(builder_ref) == builder_ref

\* PipelineBuilder.build(): Pipeline(self.steps) keeps the reference to the
\* builder's own list object.
build(builder_ref) == builder_ref

\* step.get('kwargs', {}) of a configuration descriptor.
DescriptorKwargs(d) == IF d.has_kwargs THEN d.kwargs ELSE EmptyKwargs

\* The attributes of the steps module that name a step class.
Namespace == StepClasses

\* ------------------------------------------------------------------ inputs

DataChoices == {None, DF(<<"a", "b">>), DF(<<"a", "a", "b">>)}

KwCsv == {<<"file_type", "csv">>, <<"filepath_or_buffer", FilePath>>}

KwSave == {<<"schema_name", "public">>, <<"table_name", "sales">>}

EntryChoices ==
  { <<"LoadDataframeFromPath", KwCsv>>,
    <<"LoadDataframeFromPath", {<<"file_type", "xml">>}>>,
    <<"InitializeDatabaseConnection", EmptyKwargs>>,
    <<"InitializeDatabaseConnection", {<<"data", "x">>}>>,
    <<"CloseDatabaseConnection", EmptyKwargs>>,
    <<"CloseDatabaseConnection", {<<"db_engine", "connection">>}>>,
    <<"RemoveDuplicates", EmptyKwargs>>,
    <<"ValidateData", EmptyKwargs>>,
    <<"ValidateData", {<<"step", "x">>}>> }

Descriptor(cls) == [class |-> cls, has_kwargs |-> FALSE, kwargs |-> EmptyKwargs]

DescriptorKw(cls, kw) == [class |-> cls, has_kwargs |-> TRUE, kwargs |-> kw]

DescriptorChoices ==
  { DescriptorKw("LoadDataframeFromPath", KwCsv),
    DescriptorKw("LoadDataframeFromPath", {<<"file_type", "xml">>}),
    Descriptor("InitializeDatabaseConnection"),
    DescriptorKw("SaveDataframeToDatabase", KwSave),
    DescriptorKw("InitializeDatabaseConnection", {<<"data", "x">>}),
    Descriptor("CloseDatabaseConnection"),
    Descriptor("RemoveDuplicates"),
    DescriptorKw("RemoveDuplicates", EmptyKwargs),
    DescriptorKw("ValidateData", {<<"step", "x">>}),
    Descriptor("NoSuchStep") }

ConfigChoices == UNION {[1..n -> DescriptorChoices] : n \in 0..MaxConfig}

\* ------------------------------------------------------------------ state

VARIABLES
  lists,       \* the heap of list objects: "b" the caller's builder's, "a" the assembler's
  pipeline,    \* the list the caller's Pipeline holds in self.steps, or "none"
  snapshot,    \* the builder's entries at the moment build() was called
  inserted,    \* the entries in the order the add_step calls completed
  pc,          \* "idle", "running" (Pipeline.execute), "asm_loop", "asm_running", "exit"
  run_ref,     \* the list the running Pipeline iterates
  run_idx,     \* the position of the loop of Pipeline.execute
  run_data,    \* the local variable data of Pipeline.execute
  run_initial, \* the initial_data the run was started with
  events,      \* the record of the current (or last) run
  attempted,   \* how many step.execute calls the current run has made
  result,      \* how the last operation ended: returned a value or raised
  db_engine,   \* steps.db_engine: "None", "engine" or "disposed"
  db_table,    \* the database table the save step writes
  secrets,     \* whether the environment holds the connection variables
  config,      \* the configuration section execute_pipeline was given
  asm_idx      \* the position of the loop of execute_pipeline

vars == <<lists, pipeline, snapshot, inserted, pc, run_ref, run_idx, run_data,
          run_initial, events, attempted, result, db_engine, db_table, secrets,
          config, asm_idx>>

NoResult == [status |-> "none", op |-> "none", value |-> None, err |-> NoError]

ResultReturned(op, value) == [status |-> "returned", op |-> op, value |-> value, err |-> NoError]

ResultRaised(op, err) == [status |-> "raised", op |-> op, value |-> None, err |-> err]

Running == pc \in {"running", "asm_running"}

\* The operation the current run was started by, and where control is once it
\* has ended: the direct caller goes on, the etl.py script ends.
RunOp == IF pc = "asm_running" THEN "execute_pipeline" ELSE "Pipeline.execute"

AfterRun == IF pc = "asm_running" THEN "exit" ELSE "idle"

Init ==
  /\ lists = [r \in {"a", "b"} |-> << >>]
  /\ pipeline = "none"
  /\ snapshot = << >>
  /\ inserted = << >>
  /\ pc = "idle"
  /\ run_ref = "none"
  /\ run_idx = 1
  /\ run_data = None
  /\ run_initial = None
  /\ events = << >>
  /\ attempted = 0
  /\ result = NoResult
  /\ db_engine = "None"
  /\ db_table = NoTable
  /\ secrets \in BOOLEAN
  /\ config = << >>
  /\ asm_idx = 1

\* ------------------------------------------------------------------ the caller's builder

\* builder.add_step(step, **kw)
AddStep ==
  /\ pc = "idle"
  /\ Len(lists["b"]) < MaxSteps
  /\ \E e \in EntryChoices :
       IF AddStepFails(e[2])
       THEN /\ result' = ResultRaised("add_step", Error("TypeError", "add_step.call"))
            /\ UNCHANGED <<lists, inserted>>
       ELSE /\ lists' = [lists EXCEPT !["b"] = add_step(lists["b"], e[1], e[2])]
            /\ inserted' = Append(inserted, e)
            /\ result' = ResultReturned("add_step", None)
  /\ UNCHANGED <<pipeline, snapshot, pc, run_ref, run_idx, run_data, run_initial,
                 events, attempted, db_engine, db_table, secrets, config, asm_idx>>

\* pipeline = builder.build()
Build ==
  /\ pc = "idle"
  /\ pipeline' = build("b")
  /\ snapshot' = lists["b"]
  /\ result' = ResultReturned("build", None)
  /\ UNCHANGED <<lists, inserted, pc, run_ref, run_idx, run_data, run_initial,
                 events, attempted, db_engine, db_table, secrets, config, asm_idx>>

\* pipeline = builder.add_step(a, **ka).add_step(b, **kb).build(): each call
\* of the chain is made on what the call before it returned.
ChainBuild ==
  /\ pc = "idle"
  /\ Len(lists["b"]) + 1 < MaxSteps
  /\ \E e1, e2 \in EntryChoices :
       LET s1 == add_step(lists["b"], e1[1], e1[2])
           r1 == add_step_return("b")
           l1 == [lists EXCEPT !["b"] = s1]
       IN IF AddStepFails(e1[2])
          THEN /\ result' = ResultRaised("chain", Error("TypeError", "add_step.call"))
               /\ UNCHANGED <<lists, inserted, pipeline, snapshot>>
          ELSE IF r1 = "none"
          THEN /\ result' = ResultRaised("chain", Error("AttributeError", "chain"))
               /\ lists' = l1
               /\ inserted' = Append(inserted, e1)
               /\ UNCHANGED <<pipeline, snapshot>>
          ELSE IF AddStepFails(e2[2])
          THEN /\ result' = ResultRaised("chain", Error("TypeError", "add_step.call"))
               /\ lists' = l1
               /\ inserted' = Append(inserted, e1)
               /\ UNCHANGED <<pipeline, snapshot>>
          ELSE LET l2 == [l1 EXCEPT ![r1] = add_step(l1[r1], e2[1], e2[2])]
                   r2 == add_step_return(r1)
               IN /\ lists' = l2
                  /\ inserted' = inserted \o <<e1, e2>>
                  /\ IF r2 = "none"
                     THEN /\ result' = ResultRaised("chain", Error("AttributeError", "chain"))
                          /\ UNCHANGED <<pipeline, snapshot>>
                     ELSE /\ pipeline' = build(r2)
                          /\ snapshot' = l2[r2]
                          /\ result' = ResultReturned("chain", None)
  /\ UNCHANGED <<pc, run_ref, run_idx, run_data, run_initial, events, attempted,
                 db_engine, db_table, secrets, config, asm_idx>>

\* Pipeline.execute as it would be if it started from None whatever it is given.
ExecuteDropInitial ==
  /\ pc = "idle"
  /\ pipeline # "none"
  /\ \E d \in DataChoices :
       /\ run_data' = None
       /\ run_initial' = d
  /\ pc' = "running"
  /\ run_ref' = pipeline
  /\ run_idx' = 1
  /\ events' = << >>
  /\ attempted' = 0
  /\ result' = NoResult
  /\ UNCHANGED <<lists, pipeline, snapshot, inserted, db_engine, db_table, secrets, config, asm_idx>>

\* pipeline.execute(initial_data): data = initial_data, and the loop begins.
Execute ==
  /\ pc = "idle"
  /\ pipeline # "none"
  /\ \E d \in DataChoices :
       /\ run_data' = d
       /\ run_initial' = d
  /\ pc' = "running"
  /\ run_ref' = pipeline
  /\ run_idx' = 1
  /\ events' = << >>
  /\ attempted' = 0
  /\ result' = NoResult
  /\ UNCHANGED <<lists, pipeline, snapshot, inserted, db_engine, db_table, secrets, config, asm_idx>>

\* The loop as it would be if every step were given the initial data
\* (independent invocation instead of threading).
RunStepIndependent ==
  /\ Running
  /\ run_idx <= Len(lists[run_ref])
  /\ LET entry == lists[run_ref][run_idx]
         r == PipelineStepExecute(entry[1], run_initial, entry[2], db_engine, secrets, db_table)
     IN /\ events' = events \o r.log
        /\ attempted' = attempted + 1
        /\ db_engine' = r.out.engine
        /\ db_table' = r.table
        /\ IF r.out.ok
           THEN /\ run_data' = r.out.value
                /\ run_idx' = run_idx + 1
                /\ UNCHANGED <<pc, result>>
           ELSE /\ result' = ResultRaised(RunOp, r.out.err)
                /\ pc' = AfterRun
                /\ UNCHANGED <<run_data, run_idx>>
  /\ UNCHANGED <<lists, pipeline, snapshot, inserted, run_ref, run_initial,
                 secrets, config, asm_idx>>

\* The loop as it would be if it caught a step's error and went on to the next entry.
RunStepContinue ==
  /\ Running
  /\ run_idx <= Len(lists[run_ref])
  /\ LET entry == lists[run_ref][run_idx]
         r == PipelineStepExecute(entry[1], run_data, entry[2], db_engine, secrets, db_table)
     IN /\ events' = events \o r.log
        /\ attempted' = attempted + 1
        /\ db_engine' = r.out.engine
        /\ db_table' = r.table
        /\ run_data' = IF r.out.ok THEN r.out.value ELSE run_data
        /\ run_idx' = run_idx + 1
        /\ UNCHANGED <<pc, result>>
  /\ UNCHANGED <<lists, pipeline, snapshot, inserted, run_ref, run_initial,
                 secrets, config, asm_idx>>

\* The loop as it would be if it consumed the entry list while running it
\* (popping the head of self.steps at every turn).
RunStepConsume ==
  /\ Running
  /\ lists[run_ref] # << >>
  /\ LET entry == Head(lists[run_ref])
         r == PipelineStepExecute(entry[1], run_data, entry[2], db_engine, secrets, db_table)
     IN /\ events' = events \o r.log
        /\ attempted' = attempted + 1
        /\ db_engine' = r.out.engine
        /\ db_table' = r.table
        /\ lists' = [lists EXCEPT ![run_ref] = Tail(lists[run_ref])]
        /\ IF r.out.ok
           THEN /\ run_data' = r.out.value
                /\ UNCHANGED <<pc, result>>
           ELSE /\ result' = ResultRaised(RunOp, r.out.err)
                /\ pc' = AfterRun
                /\ UNCHANGED <<run_data>>
  /\ UNCHANGED <<pipeline, snapshot, inserted, run_ref, run_idx, run_initial,
                 secrets, config, asm_idx>>

\* The loop as it would be if it passed over an entry whose step the run has
\* already invoked (deduplication).
RunStepDedup ==
  /\ Running
  /\ run_idx <= Len(lists[run_ref])
  /\ LET entry == lists[run_ref][run_idx]
         r == PipelineStepExecute(entry[1], run_data, entry[2], db_engine, secrets, db_table)
         seen == \E i \in 1..Len(events) :
                   events[i].ev = "call" /\ events[i].step = entry[1]
     IN IF seen
        THEN /\ run_idx' = run_idx + 1
             /\ UNCHANGED <<events, attempted, db_engine, db_table, run_data, pc, result>>
        ELSE /\ events' = events \o r.log
             /\ attempted' = attempted + 1
             /\ db_engine' = r.out.engine
             /\ db_table' = r.table
             /\ IF r.out.ok
                THEN /\ run_data' = r.out.value
                     /\ run_idx' = run_idx + 1
                     /\ UNCHANGED <<pc, result>>
                ELSE /\ result' = ResultRaised(RunOp, r.out.err)
                     /\ pc' = AfterRun
                     /\ UNCHANGED <<run_data, run_idx>>
  /\ UNCHANGED <<lists, pipeline, snapshot, inserted, run_ref, run_initial,
                 secrets, config, asm_idx>>

\* The loop as it would be if a failing step made it undo what the steps
\* before it did (a transaction around the run).
RunStepRollback ==
  /\ Running
  /\ run_idx <= Len(lists[run_ref])
  /\ LET entry == lists[run_ref][run_idx]
         r == PipelineStepExecute(entry[1], run_data, entry[2], db_engine, secrets, db_table)
     IN /\ events' = events \o r.log
        /\ attempted' = attempted + 1
        /\ IF r.out.ok
           THEN /\ run_data' = r.out.value
                /\ run_idx' = run_idx + 1
                /\ db_engine' = r.out.engine
                /\ db_table' = r.table
                /\ UNCHANGED <<pc, result>>
           ELSE /\ result' = ResultRaised(RunOp, r.out.err)
                /\ pc' = AfterRun
                /\ db_engine' = "None"
                /\ db_table' = NoTable
                /\ UNCHANGED <<run_data, run_idx>>
  /\ UNCHANGED <<lists, pipeline, snapshot, inserted, run_ref, run_initial,
                 secrets, config, asm_idx>>

\* The loop as it would be if a failing step made it start the run again
\* (retrying instead of letting the error out).
RunStepRetry ==
  /\ Running
  /\ run_idx <= Len(lists[run_ref])
  /\ LET entry == lists[run_ref][run_idx]
         r == PipelineStepExecute(entry[1], run_data, entry[2], db_engine, secrets, db_table)
     IN /\ db_engine' = r.out.engine
        /\ db_table' = r.table
        /\ IF r.out.ok
           THEN /\ events' = events \o r.log
                /\ attempted' = attempted + 1
                /\ run_data' = r.out.value
                /\ run_idx' = run_idx + 1
           ELSE /\ events' = << >>
                /\ attempted' = 0
                /\ run_data' = run_initial
                /\ run_idx' = 1
  /\ UNCHANGED <<lists, pipeline, snapshot, inserted, pc, result, run_ref, run_initial,
                 secrets, config, asm_idx>>

\* One turn of the loop of Pipeline.execute: data = step.execute(data, **kwargs).
\* An error leaves the loop and the frame.
RunStep ==
  /\ Running
  /\ run_idx <= Len(lists[run_ref])
  /\ LET entry == lists[run_ref][run_idx]
         r == PipelineStepExecute(entry[1], run_data, entry[2], db_engine, secrets, db_table)
     IN /\ events' = events \o r.log
        /\ attempted' = attempted + 1
        /\ db_engine' = r.out.engine
        /\ db_table' = r.table
        /\ IF r.out.ok
           THEN /\ run_data' = r.out.value
                /\ run_idx' = run_idx + 1
                /\ UNCHANGED <<pc, result>>
           ELSE /\ result' = ResultRaised(RunOp, r.out.err)
                /\ pc' = AfterRun
                /\ UNCHANGED <<run_data, run_idx>>
  /\ UNCHANGED <<lists, pipeline, snapshot, inserted, run_ref, run_initial,
                 secrets, config, asm_idx>>

\* The loop of Pipeline.execute is over: return data.
RunReturn ==
  /\ Running
  /\ run_idx > Len(lists[run_ref])
  /\ result' = ResultReturned(RunOp, run_data)
  /\ pc' = AfterRun
  /\ UNCHANGED <<lists, pipeline, snapshot, inserted, run_ref, run_idx, run_data,
                 run_initial, events, attempted, db_engine, db_table, secrets, config, asm_idx>>

\* ------------------------------------------------------------------ the assembler

\* The script's one call execute_pipeline(pipeline_steps, module_name):
\* builder = PipelineBuilder().
AsmStart ==
  /\ pc = "idle"
  /\ \E c \in ConfigChoices : config' = c
  /\ lists' = [lists EXCEPT !["a"] = << >>]
  /\ asm_idx' = 1
  /\ pc' = "asm_loop"
  /\ events' = << >>
  /\ attempted' = 0
  /\ result' = NoResult
  /\ run_initial' = None
  /\ UNCHANGED <<pipeline, snapshot, inserted, run_ref, run_idx, run_data,
                 db_engine, db_table, secrets>>

\* The assembler's loop as it would be if it skipped a descriptor whose class
\* the namespace does not hold.
AsmResolveSkipUnknown ==
  /\ pc = "asm_loop"
  /\ asm_idx <= Len(config)
  /\ LET d == config[asm_idx]
         kw == DescriptorKwargs(d)
     IN IF d.class \notin Namespace
        THEN /\ asm_idx' = asm_idx + 1
             /\ UNCHANGED <<lists, pc, result>>
        ELSE IF AddStepFails(kw)
        THEN /\ result' = ResultRaised("execute_pipeline", Error("TypeError", "add_step.call"))
             /\ pc' = "exit"
             /\ UNCHANGED <<lists, asm_idx>>
        ELSE /\ lists' = [lists EXCEPT !["a"] = add_step(lists["a"], d.class, kw)]
             /\ asm_idx' = asm_idx + 1
             /\ UNCHANGED <<pc, result>>
  /\ UNCHANGED <<pipeline, snapshot, inserted, run_ref, run_idx, run_data, run_initial,
                 events, attempted, db_engine, db_table, secrets, config>>

\* One turn of the loop of execute_pipeline: getattr(module, _class), then
\* builder.add_step(obj(), **_kwargs).
AsmResolve ==
  /\ pc = "asm_loop"
  /\ asm_idx <= Len(config)
  /\ LET d == config[asm_idx]
         kw == DescriptorKwargs(d)
     IN IF d.class \notin Namespace
        THEN /\ result' = ResultRaised("execute_pipeline", Error("AttributeError", "getattr"))
             /\ pc' = "exit"
             /\ UNCHANGED <<lists, asm_idx>>
        ELSE IF AddStepFails(kw)
        THEN /\ result' = ResultRaised("execute_pipeline", Error("TypeError", "add_step.call"))
             /\ pc' = "exit"
             /\ UNCHANGED <<lists, asm_idx>>
        ELSE /\ lists' = [lists EXCEPT !["a"] = add_step(lists["a"], d.class, kw)]
             /\ asm_idx' = asm_idx + 1
             /\ UNCHANGED <<pc, result>>
  /\ UNCHANGED <<pipeline, snapshot, inserted, run_ref, run_idx, run_data, run_initial,
                 events, attempted, db_engine, db_table, secrets, config>>

\* The assembler as it would be if it started the run from an empty DataFrame.
AsmBuildExecuteEmptyFrame ==
  /\ pc = "asm_loop"
  /\ asm_idx > Len(config)
  /\ run_ref' = build("a")
  /\ run_data' = DF(<< >>)
  /\ run_idx' = 1
  /\ pc' = "asm_running"
  /\ UNCHANGED <<lists, pipeline, snapshot, inserted, run_initial, events, attempted,
                 result, db_engine, db_table, secrets, config, asm_idx>>

\* pipeline = builder.build(); df = pipeline.execute()
AsmBuildExecute ==
  /\ pc = "asm_loop"
  /\ asm_idx > Len(config)
  /\ run_ref' = build("a")
  /\ run_data' = None
  /\ run_idx' = 1
  /\ pc' = "asm_running"
  /\ UNCHANGED <<lists, pipeline, snapshot, inserted, run_initial, events, attempted,
                 result, db_engine, db_table, secrets, config, asm_idx>>

\* ------------------------------------------------------------------ specifications

\* A caller that uses the builder and the pipeline directly.
Next == AddStep \/ ChainBuild \/ Build \/ Execute \/ RunStep \/ RunReturn

Spec == Init /\ [][Next]_vars

\* A caller that runs configurations through the assembler.
NextAsm == AsmStart \/ AsmResolve \/ AsmBuildExecute \/ RunStep \/ RunReturn

SpecAsm == Init /\ [][NextAsm]_vars

\* The same caller, with what the blocking calls guarantee: a run whose step
\* invocation has returned or failed takes the next turn of its loop, and a
\* loop that is over returns.
SpecAsmLive == SpecAsm /\ WF_vars(RunStep) /\ WF_vars(RunReturn)

\* ------------------------------------------------------------------ properties

IsCall(e) == e.ev = "call"

IsPrint(e) == e.ev = "print"

\* The transformations invoked in the current (or last) run, in order.
Calls == SelectSeq(events, IsCall)

\* The caller's Pipeline is running or its run is the last thing that happened.
InDirectRun == pc = "running" \/ result.op = "Pipeline.execute"

\* C1: after add_step calls, build() and execute(), the transformations are
\* invoked in the order in which the steps were inserted: the invocations so far
\* are the first inserted entries in insertion order, and a run that returns has
\* invoked every inserted entry.
C1_ExecutionOrderIsInsertionOrder ==
  (InDirectRun /\ Len(inserted) = Len(snapshot)) =>
    /\ Len(Calls) <= Len(inserted)
    /\ \A i \in 1..Len(Calls) :
         Calls[i].step = inserted[i][1] /\ Calls[i].kw = inserted[i][2]
    /\ result.status = "returned" => Len(Calls) = Len(inserted)

C1_Witness ==
  /\ result = ResultReturned("Pipeline.execute", result.value)
  /\ Len(inserted) = 3
  /\ Len(snapshot) = 3
  /\ Len(Calls) = 3
  /\ inserted[1][1] # inserted[2][1]
  /\ inserted[2][1] # inserted[3][1]

\* C2: after build(), add_step on the builder does not change what the Pipeline
\* executes: at every execute() the Pipeline's entries are the builder's entries
\* as they were when build() was called.
C2_PipelineIndependentOfBuilder ==
  pc = "running" => lists[run_ref] = snapshot

\* C3: the first step receives initial_data, every later step receives the value
\* its predecessor returned, and execute returns the value the last step returned.
C3_DataThreading ==
  InDirectRun =>
    /\ \A i \in 1..Len(Calls) :
         Calls[i].data = IF i = 1 THEN run_initial ELSE Calls[i - 1].ret
    /\ result.status = "returned" =>
         result.value = IF Calls = << >> THEN run_initial ELSE Calls[Len(Calls)].ret

C3_Witness ==
  /\ result.status = "returned"
  /\ result.op = "Pipeline.execute"
  /\ Len(Calls) = 2
  /\ Calls[1].ret # Calls[1].data
  /\ Calls[2].data = Calls[1].ret
  /\ Calls[2].ret # Calls[2].data
  /\ result.value = Calls[2].ret

\* C4: when a step of a run fails, no later entry has its transformation invoked
\* and execute returns no value: a failed invocation is the last one of the run,
\* and the run has ended by raising.
C4_FailureAborts ==
  InDirectRun =>
    /\ \A i \in 1..Len(Calls) : ~Calls[i].ok => i = Len(Calls)
    /\ (\E i \in 1..Len(Calls) : ~Calls[i].ok) => pc = "idle" /\ result.status = "raised"
    /\ result.status = "raised" => Len(Calls) <= attempted /\ run_idx = attempted
    /\ result.status = "returned" => \A i \in 1..Len(Calls) : Calls[i].ok

C4_Witness ==
  /\ result.status = "raised"
  /\ result.op = "Pipeline.execute"
  /\ Len(lists[run_ref]) = 3
  /\ attempted = 2
  /\ Len(Calls) = 2
  /\ Calls[1].ok
  /\ ~Calls[2].ok

HasUnknownClass == \E i \in 1..Len(config) : config[i].class \notin Namespace

\* C5: when a descriptor at any position names a class the namespace does not
\* hold, assembly fails before any step's execute runs: no transformation is
\* invoked, no progress line is printed, and execute_pipeline ends by raising.
C5_UnknownClassFailsBeforeAnyStep ==
  HasUnknownClass =>
    /\ events = << >>
    /\ attempted = 0
    /\ pc # "asm_running"
    /\ pc = "exit" => result.status = "raised"

C5_Witness ==
  /\ pc = "exit"
  /\ Len(config) = 3
  /\ config[1].class \in Namespace
  /\ config[2].class \in Namespace
  /\ config[3].class \notin Namespace
  /\ Len(lists["a"]) = 2
  /\ result = ResultRaised("execute_pipeline", Error("AttributeError", "getattr"))

\* C6: executing a Pipeline built from a builder with no entries returns the
\* initial data unchanged and invokes no step, None included.
C6_EmptyPipelineIsIdentity ==
  (result.op = "Pipeline.execute" /\ lists[run_ref] = << >>) =>
    /\ result = ResultReturned("Pipeline.execute", run_initial)
    /\ events = << >>
    /\ attempted = 0

C6_Witness ==
  /\ result.op = "Pipeline.execute"
  /\ snapshot = << >>
  /\ lists[run_ref] = << >>
  /\ run_initial # None
  /\ result.value = run_initial

\* C7: the error a step's transformation raises reaches the caller of the
\* assembler (through PipelineStep.execute and Pipeline.execute) as the same
\* error, kind and identity: nothing catches, wraps or suppresses it.
C7_ErrorPropagatesUnmodified ==
  \A i \in 1..Len(Calls) :
    ~Calls[i].ok => pc = "exit" /\ result = ResultRaised("execute_pipeline", Calls[i].err)

C7_Witness ==
  /\ pc = "exit"
  /\ Len(Calls) = 2
  /\ ~Calls[2].ok
  /\ Calls[2].err = Error("ValueError", "CloseDatabaseConnection.function")
  /\ result.err = Calls[2].err

\* C8: no turn of a run changes the Pipeline's entry list or the keyword
\* arguments stored in it, and every invocation of a run is given the keyword
\* arguments stored with its entry, so every run passes the same ones.
C8_RunsLeavePipelineUnchanged ==
  /\ [][(pc = "running" \/ pc' = "running") =>
          /\ pipeline' = pipeline
          /\ run_ref' = pipeline
          /\ lists'[pipeline] = lists[pipeline]]_vars
  /\ [](InDirectRun =>
          /\ Len(Calls) <= Len(lists[run_ref])
          /\ \A i \in 1..Len(Calls) :
               /\ Calls[i].step = lists[run_ref][i][1]
               /\ Calls[i].kw = lists[run_ref][i][2])

\* A later run of the same three entries: the engine an earlier run disposed
\* of is there before this run's InitializeDatabaseConnection.
C8_Witness ==
  /\ pc = "running"
  /\ lists[run_ref] = <<<<"LoadDataframeFromPath", KwCsv>>,
                         <<"InitializeDatabaseConnection", EmptyKwargs>>,
                         <<"CloseDatabaseConnection", EmptyKwargs>>>>
  /\ snapshot = lists[run_ref]
  /\ db_engine = "disposed"
  /\ attempted = 1
  /\ Calls[1].kw = KwCsv

\* C9: add_step never fails, whatever the step and the keyword arguments.
C9_AddStepNeverFails ==
  ~(result.op = "add_step" /\ result.status = "raised")

\* C10: for every descriptor the run reaches, the transformation is invoked with
\* exactly the descriptor's kwargs (the empty mapping when it has none).
C10_KwargsVerbatim ==
  pc \in {"asm_running", "exit"} =>
    \A i \in 1..attempted :
      /\ i <= Len(Calls)
      /\ Calls[i].kw = IF config[i].has_kwargs THEN config[i].kwargs ELSE EmptyKwargs

\* C11: add_step returns the builder it was called on, so the Pipeline that
\* builder.add_step(a).add_step(b).build() yields holds the entry sequence that
\* add_step(a) and add_step(b) as separate statements, then build(), yield; the
\* chain fails only where an add_step call of its own fails.
C11_ChainingEqualsSeparateCalls ==
  [][result'.op = "chain" =>
       LET n == Len(inserted')
       IN /\ result'.status = "raised" => result'.err = Error("TypeError", "add_step.call")
          /\ result'.status = "returned" =>
               /\ n >= 2
               /\ pipeline' = build("b")
               /\ lists'[pipeline'] =
                    add_step(add_step(lists["b"], inserted'[n - 1][1], inserted'[n - 1][2]),
                             inserted'[n][1], inserted'[n][2])
               /\ lists'["b"] = lists'[pipeline']]_vars

C11_Witness ==
  /\ result = ResultReturned("chain", None)
  /\ pipeline = "b"
  /\ Len(lists[pipeline]) = 3
  /\ snapshot = lists[pipeline]
  /\ inserted = lists[pipeline]
  /\ inserted[2][1] # inserted[3][1]

\* C12: in a run that completes without failure every step held in the
\* pipeline is invoked exactly once: the run makes one invocation per entry, the
\* i-th invocation being the i-th entry's step (a step held by two entries is
\* invoked for each of them).
C12_EveryEntryInvokedOnce ==
  (result.op = "Pipeline.execute" /\ result.status = "returned") =>
    /\ attempted = Len(lists[run_ref])
    /\ Len(Calls) = Len(lists[run_ref])
    /\ \A i \in 1..Len(lists[run_ref]) :
         /\ Calls[i].step = lists[run_ref][i][1]
         /\ Calls[i].ok

C12_Witness ==
  /\ result.op = "Pipeline.execute"
  /\ result.status = "returned"
  /\ Len(lists[run_ref]) = 3
  /\ Len(Calls) = 3
  /\ lists[run_ref][2][1] = lists[run_ref][3][1]
  /\ lists[run_ref][1][1] # lists[run_ref][2][1]

\* C13: execute_pipeline resolves and appends every descriptor in configuration
\* order, then builds and executes with no initial data: the first step is given
\* None, and the assembler returns what the last step returned (None for an
\* empty configuration).
C13_AssemblerRunsConfigFromNone ==
  /\ pc = "asm_running" =>
       /\ Len(lists[run_ref]) = Len(config)
       /\ \A i \in 1..Len(config) :
            lists[run_ref][i] = <<config[i].class, DescriptorKwargs(config[i])>>
  /\ (pc \in {"asm_running", "exit"} /\ Calls # << >>) =>
       /\ Calls[1].data = None
       /\ Calls[1].step = config[1].class
  /\ (pc = "exit" /\ result.status = "returned") =>
       /\ result.op = "execute_pipeline"
       /\ Len(Calls) = Len(config)
       /\ result.value = IF config = << >> THEN None ELSE Calls[Len(config)].ret

C13_Witness ==
  /\ pc = "exit"
  /\ result.status = "returned"
  /\ Len(config) = 2
  /\ Calls[1].data = None
  /\ Calls[1].ret # None
  /\ Calls[2].ret # Calls[1].ret
  /\ result.value = Calls[2].ret

\* C14: PipelineStep.execute is a thin wrapper: every call
\* step.execute(data, **kwargs) a run makes, whatever the keyword-argument
\* mapping, prints the step's progress line, then invokes the transformation
\* once with that data and those keyword arguments, and hands back its outcome.
C14_ExecuteIsThinWrapper ==
  InDirectRun =>
    /\ Len(events) = attempted + attempted
    /\ \A i \in 1..attempted :
         LET entry == lists[run_ref][i]
             line == events[i + i - 1]
             call == events[i + i]
         IN /\ line = PrintEvent(StepName(entry[1]))
            /\ call.ev = "call"
            /\ call.step = entry[1]
            /\ call.kw = entry[2]
            /\ call.data = IF i = 1 THEN run_initial ELSE events[i + i - 2].ret
            /\ i < attempted => call.ok
            /\ (i = attempted /\ result.status = "raised") => result.err = call.err
            /\ (i = attempted /\ result.status = "returned") => result.value = call.ret

\* What the invocations `calls`, made in order from the engine and the table
\* given, leave behind.
RECURSIVE EffectsOf(_, _, _)
EffectsOf(calls, engine, table) ==
  IF calls = << >> THEN [engine |-> engine, table |-> table]
  ELSE LET c == Head(calls)
       IN EffectsOf(Tail(calls),
                    StepFunction(c.step, c.data, c.kw, engine, secrets, table).engine,
                    TableAfter(c.step, c.data, c.kw, engine, secrets, table))

\* The invocations of the run that returned.
Completed == SelectSeq(Calls, LAMBDA c : c.ok)

\* C15: when a step fails, what the steps before it committed stays: after the
\* failure the engine and the table are what the completed steps of the run
\* produced, nothing is rolled back.
C15_NoRollbackOnFailure ==
  (pc = "exit" /\ result.status = "raised") =>
    [engine |-> db_engine, table |-> db_table] = EffectsOf(Completed, "None", NoTable)

C15_Witness ==
  /\ pc = "exit"
  /\ result.status = "raised"
  /\ Len(Calls) = 4
  /\ ~Calls[4].ok
  /\ Calls[3].step = "SaveDataframeToDatabase"
  /\ db_table = Table(FileRows)
  /\ db_engine = "engine"

\* C16: a run over a finite entry list, every step invocation of which returns
\* or fails, always ends; it returns only after every step in order has
\* returned, and otherwise ends with the failure of the first step that failed.
C16_RunAlwaysEnds ==
  /\ (pc = "asm_running") ~> (pc = "exit" /\ result.status \in {"returned", "raised"})
  /\ []((pc = "exit" /\ result.status = "returned") =>
          /\ run_idx = Len(lists[run_ref]) + 1
          /\ attempted = Len(lists[run_ref])
          /\ Len(Calls) = attempted
          /\ \A i \in 1..Len(Calls) : Calls[i].ok)
  /\ []((pc = "exit" /\ result.status = "raised" /\ attempted > 0) =>
          /\ attempted = run_idx
          /\ attempted <= Len(lists[run_ref])
          /\ Len(Calls) >= attempted - 1
          /\ \A i \in 1..(attempted - 1) : Calls[i].ok
          /\ Len(Calls) = attempted =>
               ~Calls[attempted].ok /\ result.err = Calls[attempted].err)

C16_Witness ==
  /\ pc = "exit"
  /\ result.op = "execute_pipeline"
  /\ result.status = "returned"
  /\ Len(lists[run_ref]) = 3
  /\ attempted = 3
  /\ result.value # None

\* The call step.execute(data, **kw) reaches the body of the class's function:
\* the keyword arguments bind to execute and to the function's signature.
ReachesBody(cls, kw) ==
  /\ ~BindFails({"self", "data"}, {}, TRUE, kw)
  /\ ~BindFails({"self", "data"}, FunctionSig(cls).named, FunctionSig(cls).varkw, kw)
  /\ FunctionSig(cls).required \ Keys(kw) = {}

====
